---- MODULE Spec2Model ----
(***************************************************************************)
(* Release resolution of mongodb/mongo-tools, as implemented twice:        *)
(*   binaryurl.py                         (function based, prints the URL) *)
(*   scripts/download_mongod_and_shell.py (class based, downloads server   *)
(*                                         and shell)                      *)
(* Python strings that the code splits or orders (version strings) are     *)
(* sequences of one-character strings; strings that the code only tests    *)
(* for equality or truthiness (target, arch, edition, URLs) are TLA+       *)
(* strings, "" being the empty (falsy) string.  A Python exception that    *)
(* leaves a function is the result named after it.                         *)
(***************************************************************************)
EXTENDS Integers, Sequences, FiniteSets, TLC

VARIABLES script, pc, args, opts, normalized, feed, downloaded, specs,
          fetches, url, i, result, lookups, out

vars == <<script, pc, args, opts, normalized, feed, downloaded, specs,
          fetches, url, i, result, lookups, out>>

BinaryUrl == "binaryurl.py"
DownloadScript == "download_mongod_and_shell.py"
Scripts == {BinaryUrl, DownloadScript}

\* Python's None, and the exceptions the code can raise.
None == "None"
IndexError == "IndexError"
NameError == "NameError"
True == "True"
False == "False"

\* Python truthiness of an optional string: None and "" are falsy.
Truthy(s) == s # None /\ s # ""

(***************************************************************************)
(* Strings                                                                 *)
(***************************************************************************)
\* Code point of a character (Python orders str by code point).
Ord(c) ==
  CASE c = "-" -> 45 [] c = "." -> 46
    [] c = "0" -> 48 [] c = "1" -> 49 [] c = "2" -> 50 [] c = "3" -> 51
    [] c = "4" -> 52 [] c = "5" -> 53 [] c = "6" -> 54 [] c = "7" -> 55
    [] c = "8" -> 56 [] c = "9" -> 57
    [] c = "a" -> 97 [] c = "c" -> 99 [] c = "e" -> 101 [] c = "l" -> 108
    [] c = "r" -> 114 [] c = "s" -> 115 [] c = "t" -> 116

RECURSIVE StrLess(_, _)
\* Python's s < t on str: lexicographic, a proper prefix is smaller.
StrLess(s, t) ==
  IF t = <<>> THEN FALSE
  ELSE IF s = <<>> THEN TRUE
  ELSE IF Ord(Head(s)) < Ord(Head(t)) THEN TRUE
  ELSE IF Ord(Head(s)) > Ord(Head(t)) THEN FALSE
  ELSE StrLess(Tail(s), Tail(t))

RECURSIVE Split(_, _)
\* Python's s.split(sep) for a one-character sep: "".split(".") is [""].
Split(s, sep) ==
  IF \A k \in 1..Len(s) : s[k] # sep THEN <<s>>
  ELSE LET k == CHOOSE k \in 1..Len(s) :
                  s[k] = sep /\ \A m \in 1..(k - 1) : s[m] # sep
       IN <<SubSeq(s, 1, k - 1)>> \o Split(SubSeq(s, k + 1, Len(s)), sep)

RECURSIVE Join(_, _)
\* sep.join(parts), the inverse of Split, used to build inputs.
Join(parts, sep) ==
  IF Len(parts) = 0 THEN <<>>
  ELSE IF Len(parts) = 1 THEN parts[1]
  ELSE parts[1] \o <<sep>> \o Join(Tail(parts), sep)

latest == <<"l", "a", "t", "e", "s", "t">>
v2_4 == <<"2", ".", "4">>
v4_1_0 == <<"4", ".", "1", ".", "0">>
v4_2_0 == <<"4", ".", "2", ".", "0">>
v6_0 == <<"6", ".", "0">>
v5_3 == <<"5", ".", "3">>
v5_2 == <<"5", ".", "2">>
v5_1 == <<"5", ".", "1">>
v5_0 == <<"5", ".", "0">>

\* The list tried oldest first instead.
ShellVersions_Ascending == <<v5_0, v5_1, v5_2, v5_3>>

\* The fixed list of download_and_extract_components.
ShellVersions == <<v5_3, v5_2, v5_1, v5_0>>

(***************************************************************************)
(* VersionComparator                                                       *)
(***************************************************************************)
RECURSIVE GreaterOrEqualLoop(_, _, _)
\* for i in range(len(l)): r[i] is read before l[i] is known to differ.
GreaterOrEqualLoop(l, r, k) ==
  IF k > Len(l) THEN True
  ELSE IF k > Len(r) THEN IndexError
  ELSE IF StrLess(l[k], r[k]) THEN False
  ELSE IF StrLess(r[k], l[k]) THEN True
  ELSE GreaterOrEqualLoop(l, r, k + 1)

version_is_greater_or_equal(left, right) ==
  GreaterOrEqualLoop(Split(left, "."), Split(right, "."), 1)

isVersionGreaterOrEqual(left, right) ==
  GreaterOrEqualLoop(Split(left, "."), Split(right, "."), 1)

GreaterOrEqual(s, left, right) ==
  IF s = BinaryUrl THEN isVersionGreaterOrEqual(left, right)
  ELSE version_is_greater_or_equal(left, right)

(***************************************************************************)
(* RequestNormalizer                                                       *)
(***************************************************************************)
\* A command-line flag that was not given fails "not x": the empty string.
Missing(x) == Len(x) = 0

\* binaryurl.py main, up to the first manifest fetch.
BinaryUrlNormalize(a) ==
  LET edition1 == IF a.edition = "" THEN "base" ELSE a.edition
      edition2 == IF a.version = v2_4 /\ edition1 = "enterprise"
                  THEN "subscription" ELSE edition1
      ge410 == IF a.version = latest THEN True
               ELSE isVersionGreaterOrEqual(a.version, v4_1_0)
      target1 == IF ge410 = True /\ a.target \in {"osx-ssl", "osx"}
                 THEN "macos" ELSE a.target
      target2 == IF ge410 = True /\ target1 \in {"windows_x86_64-2008plus-ssl",
                                                 "windows_x86_64-2008plus"}
                 THEN "windows_x86_64-2012plus" ELSE target1
      ge420 == isVersionGreaterOrEqual(a.version, v4_2_0)
      arch1 == IF ge420 = True /\ a.arch = "arm64" THEN "aarch64" ELSE a.arch
  IN IF a.arch = "" \/ a.target = "" \/ Missing(a.version)
     THEN [pc |-> "exit", opts |-> a]
     ELSE IF ge410 = IndexError \/ ge420 = IndexError
     THEN [pc |-> IndexError, opts |-> a]
     ELSE [pc |-> "ok",
           opts |-> [version |-> a.version, edition |-> edition2,
                     target |-> target2, arch |-> arch1, shell |-> a.shell,
                     override |-> IF a.version = latest THEN "latest" ELSE None]]

\* download_mongod_and_shell.py Wanted.__init__ (called by Main.__init__);
\* the UrlFinder of download_and_extract_components is built with shell=False.
WantedInit(a) ==
  LET edition1 == IF a.edition = "" THEN "targeted" ELSE a.edition
      ge410 == IF a.version = latest THEN True
               ELSE version_is_greater_or_equal(a.version, v4_1_0)
      target1 == IF ge410 = True /\ a.target \in {"osx-ssl", "osx"}
                 THEN "macos" ELSE a.target
      ge420 == version_is_greater_or_equal(a.version, v4_2_0)
      arch1 == IF ge420 = True /\ a.arch = "arm64" THEN "aarch64" ELSE a.arch
  IN IF a.arch = "" \/ a.target = "" \/ Missing(a.version)
     THEN [pc |-> "exit", opts |-> a]
     ELSE IF ge410 = IndexError \/ ge420 = IndexError
     THEN [pc |-> IndexError, opts |-> a]
     ELSE [pc |-> "ok",
           opts |-> [version |-> a.version, edition |-> edition1,
                     target |-> target1, arch |-> arch1, shell |-> FALSE,
                     override |-> None]]

Normalize(s, a) == IF s = BinaryUrl THEN BinaryUrlNormalize(a) ELSE WantedInit(a)

\* Wanted.is_latest
is_latest(o) == o.version = latest

\* The test of download_and_extract_components that opens the shell search:
\* self.wanted.is_latest() or version_is_greater_or_equal(version, "6.0").
ShellWanted(o) ==
  IF is_latest(o) THEN True ELSE version_is_greater_or_equal(o.version, v6_0)

(***************************************************************************)
(* ManifestMatcher                                                         *)
(***************************************************************************)
RECURSIVE VersionLoop(_, _, _)
\* for i in range(len(desired)): if desired[i] and not actual[i] == desired[i]
VersionLoop(actual, desired, k) ==
  IF k > Len(desired) THEN True
  ELSE IF desired[k] = <<>> THEN VersionLoop(actual, desired, k + 1)
  ELSE IF k > Len(actual) THEN IndexError
  ELSE IF actual[k] # desired[k] THEN False
  ELSE VersionLoop(actual, desired, k + 1)

isCorrectVersion(o, version) ==
  VersionLoop(Split(Split(version.version, "-")[1], "."), Split(o.version, "."), 1)

is_correct_version(o, version) ==
  IF is_latest(o) THEN True
  ELSE VersionLoop(Split(Split(version.version, "-")[1], "."),
                   Split(o.version, "."), 1)

isCorrectDownload(o, download) ==
  /\ download.edition = o.edition
  /\ download.target = o.target
  /\ download.arch = o.arch

is_correct_download(o, download) ==
  /\ \/ (o.edition = "enterprise" /\ download.edition = "enterprise")
     \/ /\ download.edition \in {"base", "targeted"}
        /\ o.edition \in {"base", "targeted"}
  /\ download.target = o.target
  /\ download.arch = o.arch

\* download.get(dl_key): an absent entry is None, a present one is its url.
downloadUrl(o, download) == IF o.shell THEN download.shell ELSE download.archive

url_for_component(o, download) == IF o.shell THEN download.shell ELSE download.archive

IsCorrectVersion(s, o, version) ==
  IF s = BinaryUrl THEN isCorrectVersion(o, version) ELSE is_correct_version(o, version)

IsCorrectDownload(s, o, download) ==
  IF s = BinaryUrl THEN isCorrectDownload(o, download) ELSE is_correct_download(o, download)

UrlOf(s, o, download) ==
  IF s = BinaryUrl THEN downloadUrl(o, download) ELSE url_for_component(o, download)

\* The test that guards urls.append(url): "url is not None" in binaryurl.py,
\* "if url" in download_mongod_and_shell.py.
Appended(s, u) == IF s = BinaryUrl THEN u # None ELSE Truthy(u)

RECURSIVE DownloadsLoop(_, _, _, _, _)
DownloadsLoop(s, o, downloads, j, urls) ==
  IF j > Len(downloads) THEN urls
  ELSE LET u == UrlOf(s, o, downloads[j])
       IN DownloadsLoop(s, o, downloads, j + 1,
            IF IsCorrectDownload(s, o, downloads[j]) /\ Appended(s, u)
            THEN Append(urls, u) ELSE urls)

RECURSIVE VersionsLoop(_, _, _, _, _)
\* The urls list after the loop over spec["versions"], or the exception.
VersionsLoop(s, o, versions, k, urls) ==
  IF k > Len(versions) THEN [raised |-> None, urls |-> urls]
  ELSE LET ok == IsCorrectVersion(s, o, versions[k])
       IN IF ok = IndexError THEN [raised |-> IndexError, urls |-> urls]
          ELSE VersionsLoop(s, o, versions, k + 1,
                 IF ok = True THEN DownloadsLoop(s, o, versions[k].downloads, 1, urls)
                 ELSE urls)

locateUrl(o, manifest, override) ==
  LET r == VersionsLoop(BinaryUrl, o, manifest, 1, <<>>)
  IN IF r.raised # None THEN r.raised
     ELSE IF Len(r.urls) > 0
     THEN (IF override # None THEN NameError ELSE r.urls[1])
     ELSE None

find_url_in_spec(o, manifest) ==
  LET r == VersionsLoop(DownloadScript, o, manifest, 1, <<>>)
  IN IF r.raised # None THEN r.raised
     ELSE IF Len(r.urls) > 0 THEN r.urls[1]
     ELSE None

FindUrl(s, o, manifest) ==
  IF s = BinaryUrl THEN locateUrl(o, manifest, o.override) ELSE find_url_in_spec(o, manifest)

Raised(u) == u \in {IndexError, NameError}

(***************************************************************************)
(* ManifestSource: the memo of UrlFinder                                   *)
(***************************************************************************)
\* self.downloaded[name]: None is <<>>, a loaded document d is <<d>> (any
\* document that has a "versions" key is truthy).
NotLoaded == <<>>

\* current_spec without its memo test: every call downloads.
current_spec_NoMemo(dl, fd) ==
  [downloaded |-> [dl EXCEPT !.current = <<fd.current>>], fetched |-> TRUE]

\* UrlFinder.current_spec: the memo after the call, and whether
\* download_spec ran.
current_spec(dl, fd) ==
  IF dl.current # NotLoaded THEN [downloaded |-> dl, fetched |-> FALSE]
  ELSE [downloaded |-> [dl EXCEPT !.current = <<fd.current>>], fetched |-> TRUE]

\* UrlFinder.full_spec
full_spec(dl, fd) ==
  IF dl.full # NotLoaded THEN [downloaded |-> dl, fetched |-> FALSE]
  ELSE [downloaded |-> [dl EXCEPT !.full = <<fd.full>>], fetched |-> TRUE]

\* url_for_wanted without its first "return url": the full manifest always
\* has the last word.
FallsBackToFull_Always(u) == TRUE

\* UrlFinder.url_for_wanted, "if url: return url" after the current
\* manifest: TRUE when the full manifest is consulted next.
FallsBackToFull(u) == ~Truthy(u)

(***************************************************************************)
(* Inputs                                                                  *)
(***************************************************************************)
MaxComponents == 3
MaxVersions == 2

RECURSIVE Pick(_, _, _)
\* The elements of pool at the indices of S, in pool order.
Pick(pool, S, k) ==
  IF k > Len(pool) THEN <<>>
  ELSE (IF k \in S THEN <<pool[k]>> ELSE <<>>) \o Pick(pool, S, k + 1)

\* Manifests keep the publication order of the pool (newest first).
Manifests(pool) ==
  {Pick(pool, S, 1) : S \in {T \in SUBSET (1..Len(pool)) : Cardinality(T) <= MaxVersions}}

Download(edition, target, arch, archive, shell) ==
  [edition |-> edition, target |-> target, arch |-> arch,
   archive |-> archive, shell |-> shell]

Components == {<<"0">>, <<"1">>, <<"2">>, <<"4">>, <<"6">>, <<"1", "0">>}

\* Dotted version strings of up to MaxComponents components.
DottedVersions ==
  {Join(parts, ".") : parts \in UNION {[1..n -> Components] : n \in 1..MaxComponents}}

Thresholds == {v4_1_0, v4_2_0, v6_0}

Targets == {"", "ubuntu1804", "osx", "osx-ssl", "macos",
            "windows_x86_64-2008plus", "windows_x86_64-2008plus-ssl",
            "windows_x86_64-2012plus"}

\* Command lines of the normalizer runs.
NormArgs ==
  [version : DottedVersions \cup {latest, <<>>},
   edition : {"", "enterprise"},
   target : Targets,
   arch : {"", "x86_64", "arm64"},
   shell : {FALSE}]

\* Manifest of the matcher runs, newest first.
MatchPool ==
  << [version |-> <<"4", ".", "4", ".", "1">>,
      downloads |-> << Download("base", "ubuntu1804", "x86_64", "", None),
                       Download("base", "ubuntu1804", "x86_64",
                                "http://x/4.4.1-base.tgz", "http://x/4.4.1-shell.tgz"),
                       Download("enterprise", "ubuntu1804", "x86_64",
                                "http://x/4.4.1-ent.tgz", None) >>],
     [version |-> <<"4", ".", "4", ".", "0">>,
      downloads |-> << Download("targeted", "ubuntu1804", "x86_64",
                                "http://x/4.4.0-targeted.tgz", ""),
                       Download("targeted", "macos", "x86_64",
                                "http://x/4.4.0-macos.tgz", None) >>],
     [version |-> <<"3", ".", "2", ".", "8", "-", "r", "c", "1">>,
      downloads |-> << Download("base", "ubuntu1804", "x86_64", None,
                                "http://x/3.2.8-rc1-shell.tgz"),
                       Download("subscription", "ubuntu1804", "x86_64",
                                "http://x/3.2.8-rc1-sub.tgz", None) >>],
     [version |-> <<"3", ".", "2", ".", "7">>,
      downloads |-> << Download("base", "ubuntu1804", "x86_64",
                                "http://x/3.2.7-base.tgz", "http://x/3.2.7-shell.tgz"),
                       Download("base", "ubuntu1804", "arm64",
                                "http://x/3.2.7-arm.tgz", None) >>] >>

MatchVersions ==
  {latest, <<"4", ".", "4">>, <<"4", ".", "4", ".", "1">>, <<"3", ".", "2">>,
   <<"3", ".", "2", ".", "8", "-", "r", "c", "1">>, <<"3">>, <<"3", ".", "2", ".">>}

\* Normalized requests of the matcher runs.
MatchRequests ==
  {[version |-> v, edition |-> e, target |-> t, arch |-> "x86_64", shell |-> sh,
    override |-> IF v = latest THEN "latest" ELSE None] :
     v \in MatchVersions,
     e \in {"base", "targeted", "enterprise", "subscription"},
     t \in {"ubuntu1804", "macos"},
     sh \in BOOLEAN}

\* Manifests of the resolver runs, newest first.
ResolvePool ==
  << [version |-> <<"6", ".", "0", ".", "0">>,
      downloads |-> << Download("targeted", "ubuntu1804", "x86_64",
                                "http://x/6.0.0.tgz", None) >>],
     [version |-> <<"5", ".", "3", ".", "0">>,
      downloads |-> << Download("targeted", "ubuntu1804", "x86_64",
                                "http://x/5.3.0.tgz", "http://x/5.3.0-shell.tgz") >>],
     [version |-> <<"5", ".", "2", ".", "0">>,
      downloads |-> << Download("targeted", "ubuntu1804", "x86_64",
                                None, "http://x/5.2.0-shell.tgz") >>],
     [version |-> <<"5", ".", "1", ".", "0">>,
      downloads |-> << Download("targeted", "ubuntu1804", "x86_64",
                                "http://x/5.1.0.tgz", None) >>],
     [version |-> <<"5", ".", "0", ".", "0">>,
      downloads |-> << Download("enterprise", "ubuntu1804", "x86_64",
                                "http://x/5.0.0-ent.tgz", None),
                       Download("targeted", "ubuntu1804", "x86_64",
                                "http://x/5.0.0.tgz", "http://x/5.0.0-shell.tgz") >>],
     [version |-> <<"4", ".", "4", ".", "1">>,
      downloads |-> << Download("targeted", "ubuntu1804", "x86_64",
                                "", "http://x/4.4.1-shell.tgz"),
                       Download("targeted", "ubuntu1804", "x86_64",
                                "http://x/4.4.1.tgz", None) >>] >>

\* Command lines of the resolver runs; only binaryurl.py has --shell.
ResolveArgs(s) ==
  [version : {latest, v6_0, <<"6", ".", "0", ".", "1">>, <<"4", ".", "4">>, v5_2, <<>>},
   edition : {"", "targeted", "enterprise"},
   target : {"ubuntu1804"},
   arch : {"x86_64"},
   shell : IF s = BinaryUrl THEN BOOLEAN ELSE {FALSE}]

NoFeed == [current |-> <<>>, full |-> <<>>]
NoResult == [url |-> None, shell |-> None]

(***************************************************************************)
(* ReleaseResolver: the two programs                                       *)
(*   opts       the request object: argparse's opts in binaryurl.py; the   *)
(*              Wanted that Main.wanted and UrlFinder.wanted both refer to *)
(*   normalized the request as it was when normalization finished          *)
(*   feed       the two documents the download site serves                 *)
(*   downloaded UrlFinder.downloaded;  specs  binaryurl.py's specs         *)
(*   fetches    how often each document has been downloaded                *)
(*   url        the url variable of the running function                   *)
(*   i          position in the list of shell versions                     *)
(*   result     the URL written or downloaded, and the shell's             *)
(*   lookups    every manifest scan so far: version, manifest, outcome     *)
(***************************************************************************)
Init ==
  /\ script \in Scripts
  /\ pc = "start"
  /\ args \in ResolveArgs(script)
  /\ opts = args
  /\ normalized = args
  /\ feed \in [current : Manifests(ResolvePool), full : Manifests(ResolvePool)]
  /\ downloaded = [current |-> NotLoaded, full |-> NotLoaded]
  /\ specs = NotLoaded
  /\ fetches = [current |-> 0, full |-> 0]
  /\ url = None
  /\ i = 0
  /\ result = NoResult
  /\ lookups = <<>>
  /\ out = [op |-> "none"]

Scan(manifest, u) == [version |-> opts.version, manifest |-> manifest, url |-> u]

\* binaryurl.py main, lines 25-47.
MainNormalize ==
  /\ script = BinaryUrl
  /\ pc = "start"
  /\ LET n == BinaryUrlNormalize(args)
     IN /\ pc' = IF n.pc = "ok" THEN "locate_current" ELSE n.pc
        /\ opts' = n.opts
        /\ normalized' = n.opts
  /\ UNCHANGED <<script, args, feed, downloaded, specs, fetches, url, i, result,
                 lookups, out>>

\* binaryurl.py main, lines 49-54.
MainLocateCurrent ==
  /\ script = BinaryUrl
  /\ pc = "locate_current"
  /\ specs' = <<feed.current>>
  /\ fetches' = [fetches EXCEPT !.current = @ + 1]
  /\ LET u == locateUrl(opts, feed.current, opts.override)
     IN /\ lookups' = Append(lookups, Scan("current", u))
        /\ url' = IF Raised(u) THEN url ELSE u
        /\ pc' = IF Raised(u) THEN u
                 ELSE IF ~Truthy(u) THEN "locate_full" ELSE "write"
  /\ UNCHANGED <<script, args, opts, normalized, feed, downloaded, i, result, out>>

\* binaryurl.py main, lines 55-56.
MainLocateFull ==
  /\ script = BinaryUrl
  /\ pc = "locate_full"
  /\ specs' = <<feed.full>>
  /\ fetches' = [fetches EXCEPT !.full = @ + 1]
  /\ LET u == locateUrl(opts, feed.full, opts.override)
     IN /\ lookups' = Append(lookups, Scan("full", u))
        /\ url' = IF Raised(u) THEN url ELSE u
        /\ pc' = IF Raised(u) THEN u ELSE "write"
  /\ UNCHANGED <<script, args, opts, normalized, feed, downloaded, i, result, out>>

\* binaryurl.py main, lines 58-61.
MainWrite ==
  /\ script = BinaryUrl
  /\ pc = "write"
  /\ IF ~Truthy(url)
     THEN pc' = "NotFound" /\ UNCHANGED result
     ELSE pc' = "done" /\ result' = [result EXCEPT !.url = url]
  /\ UNCHANGED <<script, args, opts, normalized, feed, downloaded, specs, fetches,
                 url, i, lookups, out>>

\* download_mongod_and_shell.py Main.__init__.
MainInit ==
  /\ script = DownloadScript
  /\ pc = "start"
  /\ LET n == WantedInit(args)
     IN /\ pc' = IF n.pc = "ok" THEN "server_current" ELSE n.pc
        /\ opts' = n.opts
        /\ normalized' = n.opts
  /\ UNCHANGED <<script, args, feed, downloaded, specs, fetches, url, i, result,
                 lookups, out>>

\* UrlFinder.url_for_wanted, lines 164-166.
UrlForWantedCurrent ==
  /\ script = DownloadScript
  /\ pc \in {"server_current", "shell_current"}
  /\ LET c == current_spec(downloaded, feed)
         u == find_url_in_spec(opts, c.downloaded.current[1])
     IN /\ downloaded' = c.downloaded
        /\ fetches' = IF c.fetched THEN [fetches EXCEPT !.current = @ + 1] ELSE fetches
        /\ lookups' = Append(lookups, Scan("current", u))
        /\ url' = IF Raised(u) THEN url ELSE u
        /\ pc' = IF Raised(u) THEN u
                 ELSE IF FallsBackToFull(u)
                 THEN (IF pc = "server_current" THEN "server_full" ELSE "shell_full")
                 ELSE (IF pc = "server_current" THEN "server_found" ELSE "shell_found")
  /\ UNCHANGED <<script, args, opts, normalized, feed, specs, i, result, out>>

\* UrlFinder.url_for_wanted, lines 167-169.
UrlForWantedFull ==
  /\ script = DownloadScript
  /\ pc \in {"server_full", "shell_full"}
  /\ LET c == full_spec(downloaded, feed)
         u == find_url_in_spec(opts, c.downloaded.full[1])
     IN /\ downloaded' = c.downloaded
        /\ fetches' = IF c.fetched THEN [fetches EXCEPT !.full = @ + 1] ELSE fetches
        /\ lookups' = Append(lookups, Scan("full", u))
        /\ url' = IF Raised(u) THEN url ELSE IF Truthy(u) THEN u ELSE None
        /\ pc' = IF Raised(u) THEN u
                 ELSE IF pc = "server_full" THEN "server_found" ELSE "shell_found"
  /\ UNCHANGED <<script, args, opts, normalized, feed, specs, i, result, out>>

\* Main.download_and_extract_components, lines 59-68.
ServerFound ==
  /\ script = DownloadScript
  /\ pc = "server_found"
  /\ IF ~Truthy(url)
     THEN pc' = "NotFound" /\ UNCHANGED <<opts, i, result>>
     ELSE /\ result' = [result EXCEPT !.url = url]
          /\ LET shell == ShellWanted(opts)
             IN IF shell = IndexError
                THEN pc' = IndexError /\ UNCHANGED <<opts, i>>
                ELSE IF shell = False
                THEN pc' = "done" /\ UNCHANGED <<opts, i>>
                ELSE /\ i' = 1
                     /\ opts' = [opts EXCEPT !.version = ShellVersions[1]]
                     /\ pc' = "shell_current"
  /\ UNCHANGED <<script, args, normalized, feed, downloaded, specs, fetches, url,
                 lookups, out>>

\* Main.download_and_extract_components, lines 67-74.
ShellFound ==
  /\ script = DownloadScript
  /\ pc = "shell_found"
  /\ IF Truthy(url)
     THEN /\ result' = [result EXCEPT !.shell = url]
          /\ pc' = "done"
          /\ UNCHANGED <<opts, i>>
     ELSE IF i < Len(ShellVersions)
     THEN /\ i' = i + 1
          /\ opts' = [opts EXCEPT !.version = ShellVersions[i + 1]]
          /\ pc' = "shell_current"
          /\ UNCHANGED result
     ELSE pc' = "NotFound" /\ UNCHANGED <<opts, i, result>>
  /\ UNCHANGED <<script, args, normalized, feed, downloaded, specs, fetches, url,
                 lookups, out>>

Next ==
  \/ MainNormalize
  \/ MainLocateCurrent
  \/ MainLocateFull
  \/ MainWrite
  \/ MainInit
  \/ UrlForWantedCurrent
  \/ UrlForWantedFull
  \/ ServerFound
  \/ ShellFound

Spec == Init /\ [][Next]_vars

(***************************************************************************)
(* The normalizer alone, over every command line of NormArgs               *)
(***************************************************************************)
InitNormalize ==
  /\ script \in Scripts
  /\ pc = "start"
  /\ args \in NormArgs
  /\ opts = args
  /\ normalized = args
  /\ feed = NoFeed
  /\ downloaded = [current |-> NotLoaded, full |-> NotLoaded]
  /\ specs = NotLoaded
  /\ fetches = [current |-> 0, full |-> 0]
  /\ url = None
  /\ i = 0
  /\ result = NoResult
  /\ lookups = <<>>
  /\ out = [op |-> "none"]

NextNormalize == MainNormalize \/ MainInit

SpecNormalize == InitNormalize /\ [][NextNormalize]_vars

(***************************************************************************)
(* The comparator alone                                                    *)
(***************************************************************************)
InitCompare ==
  /\ script \in Scripts
  /\ pc = "compare"
  /\ out \in [op : {"isGreaterOrEqual"}, left : DottedVersions \cup {latest},
              right : Thresholds, value : {"pending"}]
  /\ args = [version |-> <<>>, edition |-> "", target |-> "", arch |-> "",
             shell |-> FALSE]
  /\ opts = args
  /\ normalized = args
  /\ feed = NoFeed
  /\ downloaded = [current |-> NotLoaded, full |-> NotLoaded]
  /\ specs = NotLoaded
  /\ fetches = [current |-> 0, full |-> 0]
  /\ url = None
  /\ i = 0
  /\ result = NoResult
  /\ lookups = <<>>

Compare ==
  /\ pc = "compare"
  /\ out' = [out EXCEPT !.value = GreaterOrEqual(script, out.left, out.right)]
  /\ pc' = "compared"
  /\ UNCHANGED <<script, args, opts, normalized, feed, downloaded, specs, fetches,
                 url, i, result, lookups>>

NextCompare == Compare

SpecCompare == InitCompare /\ [][NextCompare]_vars

(***************************************************************************)
(* The matcher alone: one normalized request against one manifest          *)
(***************************************************************************)
InitMatch ==
  /\ script \in Scripts
  /\ pc = "match"
  /\ opts \in MatchRequests
  /\ args = opts
  /\ normalized = opts
  /\ specs \in {<<m>> : m \in Manifests(MatchPool)}
  /\ feed = NoFeed
  /\ downloaded = [current |-> NotLoaded, full |-> NotLoaded]
  /\ fetches = [current |-> 0, full |-> 0]
  /\ url = None
  /\ i = 0
  /\ result = NoResult
  /\ lookups = <<>>
  /\ out = [op |-> "none"]

\* isCorrectVersion / is_correct_version on the k-th VersionRecord.
TestVersion(k) ==
  /\ pc = "match"
  /\ out' = [op |-> "version", k |-> k, value |-> IsCorrectVersion(script, opts, specs[1][k])]
  /\ pc' = "tested"
  /\ UNCHANGED <<script, args, opts, normalized, feed, downloaded, specs, fetches,
                 url, i, result, lookups>>

\* isCorrectDownload / is_correct_download on the j-th download of the k-th record.
TestDownload(k, j) ==
  /\ pc = "match"
  /\ out' = [op |-> "download", k |-> k, j |-> j,
             value |-> IsCorrectDownload(script, opts, specs[1][k].downloads[j])]
  /\ pc' = "tested"
  /\ UNCHANGED <<script, args, opts, normalized, feed, downloaded, specs, fetches,
                 url, i, result, lookups>>

\* locateUrl / find_url_in_spec on the whole manifest.
Locate ==
  /\ pc = "match"
  /\ out' = [op |-> "locate", value |-> FindUrl(script, opts, specs[1])]
  /\ pc' = "located"
  /\ UNCHANGED <<script, args, opts, normalized, feed, downloaded, specs, fetches,
                 url, i, result, lookups>>

NextMatch ==
  \/ \E k \in 1..Len(specs[1]) : TestVersion(k)
  \/ \E k \in 1..Len(specs[1]) : \E j \in 1..Len(specs[1][k].downloads) : TestDownload(k, j)
  \/ Locate

SpecMatch == InitMatch /\ [][NextMatch]_vars

(***************************************************************************)
(* Properties                                                              *)
(***************************************************************************)
\* What the matcher finds for the normalized request in each served manifest.
CurrentMatch == FindUrl(script, normalized, feed.current)
FullMatch == FindUrl(script, normalized, feed.full)

\* The primary resolution has ended in the NotFound failure.
PrimaryNotFound == pc = "NotFound" /\ result.url = None

\* Every scan of the full manifest directly follows a scan of the current
\* manifest for the same version that found nothing.
FullOnlyAfterCurrentMiss ==
  \A k \in DOMAIN lookups :
    lookups[k].manifest = "full" =>
      /\ k > 1
      /\ lookups[k - 1].manifest = "current"
      /\ lookups[k - 1].version = lookups[k].version
      /\ ~Truthy(lookups[k - 1].url)

\* C1: resolve returns the current manifest's match whenever there is one; the
\* full manifest is consulted only after the current manifest gave no match,
\* and then its match is returned; with no match in either, the resolution
\* ends in NotFound and produces no URL.
C1_TwoTierLookup ==
  /\ result.url # None =>
       /\ Truthy(result.url)
       /\ IF Truthy(CurrentMatch)
          THEN /\ result.url = CurrentMatch
               /\ \A k \in DOMAIN lookups :
                    lookups[k].version = normalized.version =>
                      lookups[k].manifest = "current"
          ELSE Truthy(FullMatch) /\ result.url = FullMatch
  /\ PrimaryNotFound => ~Truthy(CurrentMatch) /\ ~Truthy(FullMatch)
  /\ (pc \in {"done", "NotFound"} /\ ~Truthy(CurrentMatch) /\ ~Truthy(FullMatch)) =>
       PrimaryNotFound
  /\ FullOnlyAfterCurrentMiss

\* C1 witness: a resolution that missed in the current manifest and returned
\* the full manifest's match.
C1_Witness ==
  /\ pc = "done"
  /\ ~Truthy(CurrentMatch)
  /\ result.url = FullMatch
  /\ fetches.full = 1

\* C8: one resolver instance downloads each manifest at most once over all its
\* lookups, and the full manifest not at all unless some lookup missed in the
\* current manifest.
C8_FetchedAtMostOnce ==
  /\ fetches.current <= 1
  /\ fetches.full <= 1
  /\ fetches.full > 0 =>
       \E k \in DOMAIN lookups :
         lookups[k].manifest = "current" /\ ~Truthy(lookups[k].url)

\* C8 witness: the primary lookup and at least two shell lookups have run
\* against both manifests.
C8_Witness ==
  /\ script = DownloadScript
  /\ i >= 2
  /\ Len(lookups) >= 4
  /\ fetches = [current |-> 1, full |-> 1]

\* C9: once normalization has completed, the caller's normalized request
\* keeps its version, target, arch and edition, also during and after the
\* shell search.
C9_RequestNotMutated ==
  /\ opts.version = normalized.version
  /\ opts.target = normalized.target
  /\ opts.arch = normalized.arch
  /\ opts.edition = normalized.edition

\* C10: isGreaterOrEqual returns a boolean, and never raises, for every pair
\* of non-empty dotted version strings.
C10_ComparatorTotal ==
  pc = "compared" => out.value \in {True, False}

OldTargets == {"osx", "osx-ssl", "windows_x86_64-2008plus", "windows_x86_64-2008plus-ssl"}

\* C7: after normalization of a request for "latest" or for a version at or
\* above "4.1.0" the target is none of the four old names (the macOS ones are
\* "macos", the Windows ones "windows_x86_64-2012plus"); for every other
\* version the target is unchanged.
C7_TargetRenamed ==
  pc \in {"locate_current", "server_current"} =>
    IF args.version = latest \/ GreaterOrEqual(script, args.version, v4_1_0) = True
    THEN /\ opts.target \notin OldTargets
         /\ args.target \in {"osx", "osx-ssl"} => opts.target = "macos"
         /\ args.target \in {"windows_x86_64-2008plus", "windows_x86_64-2008plus-ssl"} =>
              opts.target = "windows_x86_64-2012plus"
         /\ args.target \notin OldTargets => opts.target = args.target
    ELSE opts.target = args.target

\* Positions <<k, j>> of the downloads that pass the matcher's own version
\* and download tests and carry a non-empty URL of the requested kind.
Usable(s, o, manifest) ==
  {kj \in {<<k, j>> : k \in 1..Len(manifest), j \in 1..2} :
     /\ kj[2] <= Len(manifest[kj[1]].downloads)
     /\ IsCorrectVersion(s, o, manifest[kj[1]]) = True
     /\ IsCorrectDownload(s, o, manifest[kj[1]].downloads[kj[2]])
     /\ Truthy(UrlOf(s, o, manifest[kj[1]].downloads[kj[2]]))}

Before(a, b) == a[1] < b[1] \/ (a[1] = b[1] /\ a[2] < b[2])

\* The first non-empty URL in manifest order, None when there is none.
FirstUsable(s, o, manifest) ==
  IF Usable(s, o, manifest) = {} THEN None
  ELSE LET first == CHOOSE a \in Usable(s, o, manifest) :
                      \A b \in Usable(s, o, manifest) : a = b \/ Before(a, b)
       IN UrlOf(s, o, manifest[first[1]].downloads[first[2]])

\* C2: findUrl returns the first non-empty URL of the requested kind among
\* the matching downloads in manifest order; a match with no entry or an
\* empty URL is skipped; none is returned only when no match has a usable URL.
C2_FirstNonEmptyUrl ==
  out.op = "locate" => out.value = FirstUsable(script, opts, specs[1])

\* C3: with version "latest" every VersionRecord passes the version test, and
\* the URL returned is that of the first record in manifest order with a
\* (usable) download matching target, arch and edition.
C3_LatestMatchesAll ==
  opts.version = latest =>
    /\ out.op = "version" => out.value = True
    /\ out.op = "locate" =>
         LET hits == {kj \in {<<k, j>> : k \in 1..Len(specs[1]), j \in 1..2} :
                        /\ kj[2] <= Len(specs[1][kj[1]].downloads)
                        /\ IsCorrectDownload(script, opts, specs[1][kj[1]].downloads[kj[2]])
                        /\ Truthy(UrlOf(script, opts, specs[1][kj[1]].downloads[kj[2]]))}
         IN IF hits = {} THEN out.value = None
            ELSE \E a \in hits :
                   /\ \A b \in hits : a = b \/ Before(a, b)
                   /\ out.value = UrlOf(script, opts, specs[1][a[1]].downloads[a[2]])

\* p is a prefix of q, component by component.
IsPrefix(p, q) == Len(p) <= Len(q) /\ \A k \in 1..Len(p) : p[k] = q[k]

\* C4: a request equal to a record's full version string (also one with a
\* "-rcN" suffix) passes the version test for that record, and so does a
\* request that is a dotted prefix of the record's stripped version.
C4_ReflexivePrefix ==
  out.op = "version" =>
    LET record == specs[1][out.k]
        stripped == Split(record.version, "-")[1]
    IN (\/ opts.version = record.version
        \/ IsPrefix(Split(opts.version, "."), Split(stripped, "."))) =>
         out.value = True

\* Editions under the aliasing rule: "base" and "targeted" are one edition,
\* every other edition is itself only.
EditionsAlias(wanted, edition) ==
  IF wanted \in {"base", "targeted"} THEN edition \in {"base", "targeted"}
  ELSE wanted = edition

\* C5: a download matches exactly when target and arch are equal and the
\* editions match under aliasing.
C5_DownloadMatch ==
  out.op = "download" =>
    LET download == specs[1][out.k].downloads[out.j]
    IN out.value = (/\ download.target = opts.target
                    /\ download.arch = opts.arch
                    /\ EditionsAlias(opts.edition, download.edition))

\* The order in which the shell search is said to try versions.
ClaimedOrder == <<v5_3, v5_2, v5_1, v5_0>>

RECURSIVE Dedup(_)
\* A sequence without its consecutive repetitions.
Dedup(q) ==
  IF Len(q) <= 1 THEN q
  ELSE IF q[1] = q[2] THEN Dedup(Tail(q))
  ELSE <<q[1]>> \o Dedup(Tail(q))

\* The versions of the scans made by the shell search, in order.
ShellScanVersions ==
  LET scans == SelectSeq(lookups, LAMBDA e : e.version # normalized.version)
  IN [k \in DOMAIN scans |-> scans[k].version]

\* What the current-then-full lookup of the n-th shell version finds when it
\* looks for the companion ("shell") URL, or for the archive URL.
ShellLookup(n, companion) ==
  LET o == [normalized EXCEPT !.version = ClaimedOrder[n], !.shell = companion]
      c == find_url_in_spec(o, feed.current)
      f == find_url_in_spec(o, feed.full)
  IN IF Truthy(c) THEN c ELSE IF Truthy(f) THEN f ELSE None

\* The shell search of download_mongod_and_shell.py, looking for URLs of the
\* given kind.
ShellSearch(companion) ==
  script = DownloadScript =>
    /\ i > 0 =>
         /\ Truthy(result.url)
         /\ \/ normalized.version = latest
            \/ version_is_greater_or_equal(normalized.version, v6_0) = True
    /\ i \in 0..Len(ClaimedOrder)
    /\ Dedup(ShellScanVersions) =
         SubSeq(ClaimedOrder, 1, IF pc = "shell_current" THEN i - 1 ELSE i)
    /\ FullOnlyAfterCurrentMiss
    /\ \A n \in 1..(i - 1) : ShellLookup(n, companion) = None
    /\ (pc = "done" /\ i > 0) =>
         /\ Truthy(result.shell)
         /\ result.shell = ShellLookup(i, companion)
         /\ lookups[Len(lookups)].url = result.shell
    /\ (pc = "done" /\ i = 0) => result.shell = None
    /\ (pc = "NotFound" /\ i > 0) =>
         /\ i = Len(ClaimedOrder)
         /\ \A n \in 1..Len(ClaimedOrder) : ShellLookup(n, companion) = None
         /\ result.shell = None

\* C6, as stated: the search runs only for "latest" or a version at or above
\* "6.0", tries 5.3, 5.2, 5.1, 5.0 in that order, each with the
\* current-then-full lookup, stops at the first version for which a companion
\* ("shell") URL is found and returns that companion URL, and fails with
\* NotFound when none of the four has one.
C6_CompanionUrlReturned == ShellSearch(TRUE)

\* C6, amended: the same search, but the lookup of each version is for the
\* archive URL (the UrlFinder is built with shell=False): it stops at the
\* first version with an archive URL and returns that archive URL.
C6_ArchiveUrlReturned == ShellSearch(FALSE)

\* C6 witness: the search has passed over at least one version and ended
\* with a URL.
C6_Witness ==
  /\ script = DownloadScript
  /\ pc = "done"
  /\ i >= 2
  /\ Truthy(result.shell)

====
